---- MODULE Spec2Model ----
(***************************************************************************)
(* Model of the GW3099-2024 course material:                               *)
(*   - data/parallel/slurm.batch: the batch script and the job the         *)
(*     scheduler runs from it (SpecBatch);                                 *)
(*   - exercises/xt3d/xt3d-ex0-unstructured-grid.ipynb: the functions      *)
(*     hgrad, add_chds and build_sim (SpecFn) and the exercise cells B, C  *)
(*     and D executed in a live kernel (SpecNotebook).                     *)
(* Real numbers are exact rationals <<numerator, denominator>>.            *)
(***************************************************************************)
EXTENDS Integers, Sequences, FiniteSets, TLC

VARIABLES
    \* ---- slurm.batch ----
    ip,         \* index of the next script line to execute (1..Len(Script)+1)
    running,    \* the command in the foreground of the script, or "none"
    status,     \* $?: exit status of the last command that ended
    clock,      \* minutes of wall-clock time the job has used
    jobState,   \* scheduler's state of the job
    mail,       \* set of e-mails the scheduler has sent: <<type, user>>
    simProcs,   \* number of simulator (mf6) processes alive
    zipProcs,   \* number of zip processes alive
    steps,      \* history: the commands started, in order
    ended,      \* history: exit status of each command that ended
    \* ---- notebook functions applied to drawn inputs ----
    fn_pc,      \* "in", "hgrad", then "base" (built without a gradient) or
                \* "gradient" (built with hgrad's); "off" outside SpecFn
    fn_in,      \* the arguments: [k, k22, angle1, qx, qy]
    fn_out,     \* what hgrad returned, with the det it computed
    fn_sim,     \* what build_sim returned
    \* ---- the notebook's kernel and its workspace directory ----
    cell,       \* the exercise cell being executed, or "idle" ("off")
    line,       \* index of the next statement of that cell
    xt3doptions,\* the global xt3doptions
    glob,       \* the globals cell D assigns: [k22, angle1, hgradx, hgrady]
    objs,       \* the simulation objects alive: id -> <<simulation>> or <<>>
    sim,        \* the global sim: an id
    gwf,        \* the global gwf: the id of the simulation it is the model of
    disk,       \* files in sim_ws: [npf, deck, out], each <<>> when absent
    plotted,    \* output that plot_results last read, <<>> before
    budget,     \* output the listing-budget reader last read, <<>> before
    log,        \* history: the calls of the current cell, in order
    lastRun     \* history: <<>> or <<what the last simulator run was given>>

batchVars == <<ip, running, status, clock, jobState, mail, simProcs, zipProcs,
               steps, ended>>

fnVars == <<fn_pc, fn_in, fn_out, fn_sim>>

nbVars == <<cell, line, xt3doptions, glob, objs, sim, gwf, disk, plotted,
            budget, log, lastRun>>

vars == <<batchVars, fnVars, nbVars>>

\* Python's None; numbers are pairs, so None is comparable with them.
None == <<>>

BatchOff ==
    /\ ip = 0 /\ running = "off" /\ status = 0 /\ clock = 0 /\ jobState = "OFF"
    /\ mail = {} /\ simProcs = 0 /\ zipProcs = 0 /\ steps = <<>> /\ ended = <<>>

FnOff == fn_pc = "off" /\ fn_in = None /\ fn_out = None /\ fn_sim = None

NbOff ==
    /\ cell = "off" /\ line = 0 /\ xt3doptions = "None" /\ glob = None
    /\ objs = None /\ sim = 0 /\ gwf = 0 /\ disk = None /\ plotted = None
    /\ budget = None /\ log = <<>> /\ lastRun = None

(***************************************************************************)
(*                              slurm.batch                                *)
(***************************************************************************)

NtasksTwo == 1 + 1

\* #SBATCH --nodes=1, --ntasks=1: srun starts one process per task
Ntasks == 1

\* #SBATCH --time=00:10:00 (minutes)
TimeLimit == 10

MailTypeEnd == {"END"}

\* #SBATCH --mail-type=FAIL
MailType == {"FAIL"}

\* #SBATCH --mail-user=...
MailUser == "jdhughes@usgs.gov"

\* The three commands of the script, in file order.
Script == <<"module", "srun", "zip">>

\* Exit statuses a command can end with (0 is success).
ExitStatuses == {0, 1}

NextIpErrexit(i, st) == IF st # 0 THEN Len(Script) + 1 ELSE i + 1

\* The script has no "set -e", no loop and no conditional: whatever a command
\* returned, the shell goes on to the next line.
NextIp(i, st) == i + 1

SrunBackground == FALSE

\* "srun mf6 -p" is a foreground command: the shell waits for it.
SrunBlocking == TRUE

\* Job state the scheduler records for a batch script that exited with st.
JobStateOfExit(st) == IF st = 0 THEN "COMPLETED" ELSE "FAILED"

FailedStates == {"FAILED", "TIMEOUT"}

\* Mail the scheduler sends when the job ends in state s.
MailFor(s) ==
    IF s \in FailedStates
    THEN IF "FAIL" \in MailType THEN {<<"FAIL", MailUser>>}
         ELSE IF "END" \in MailType THEN {<<"END", MailUser>>} ELSE {}
    ELSE IF "END" \in MailType THEN {<<"END", MailUser>>} ELSE {}

\* The job leaves the notebook's state alone.
BatchFrame == UNCHANGED <<fnVars, nbVars>>

BatchInit ==
    /\ FnOff
    /\ NbOff
    /\ ip = 1
    /\ running = "none"
    /\ status = 0
    /\ clock = 0
    /\ jobState = "RUNNING"
    /\ mail = {}
    /\ simProcs = 0
    /\ zipProcs = 0
    /\ steps = <<>>
    /\ ended = <<>>

Cmd == IF ip \in 1..Len(Script) THEN Script[ip] ELSE "exit"

\* line 13: module load modflow/6.6.0.dev0 (a shell function, run in the shell)
ModuleLoad(st) ==
    /\ BatchFrame
    /\ jobState = "RUNNING" /\ running = "none" /\ Cmd = "module"
    /\ steps' = Append(steps, "module")
    /\ ended' = Append(ended, <<"module", st>>)
    /\ status' = st
    /\ ip' = NextIp(ip, st)
    /\ UNCHANGED <<running, clock, jobState, mail, simProcs, zipProcs>>

\* line 16: srun mf6 -p, launch: one process per task
SrunStart ==
    /\ BatchFrame
    /\ jobState = "RUNNING" /\ running = "none" /\ Cmd = "srun"
    /\ steps' = Append(steps, "srun")
    /\ simProcs' = simProcs + Ntasks
    /\ IF SrunBlocking
       THEN running' = "srun" /\ UNCHANGED <<ip, status, ended>>
       ELSE /\ running' = "none"
            /\ status' = 0
            /\ ip' = NextIp(ip, 0)
            /\ UNCHANGED ended
    /\ UNCHANGED <<clock, jobState, mail, zipProcs>>

\* line 16: the simulator ends with status st and srun returns it
SrunEnd(st) ==
    /\ BatchFrame
    /\ jobState = "RUNNING" /\ running = "srun"
    /\ simProcs' = 0
    /\ running' = "none"
    /\ status' = st
    /\ ended' = Append(ended, <<"srun", st>>)
    /\ ip' = NextIp(ip, st)
    /\ UNCHANGED <<clock, jobState, mail, zipProcs, steps>>

\* line 18: zip ../../archive/... ngwm.ims mfsim.lst ims.inner.csv, launch
ZipStart ==
    /\ BatchFrame
    /\ jobState = "RUNNING" /\ running = "none" /\ Cmd = "zip"
    /\ steps' = Append(steps, "zip")
    /\ zipProcs' = zipProcs + 1
    /\ running' = "zip"
    /\ UNCHANGED <<ip, status, clock, jobState, mail, simProcs, ended>>

\* line 18: zip ends with status st
ZipEnd(st) ==
    /\ BatchFrame
    /\ jobState = "RUNNING" /\ running = "zip"
    /\ zipProcs' = 0
    /\ running' = "none"
    /\ status' = st
    /\ ended' = Append(ended, <<"zip", st>>)
    /\ ip' = NextIp(ip, st)
    /\ UNCHANGED <<clock, jobState, mail, simProcs, steps>>

\* End of file: the shell exits with the status of the last command, the
\* scheduler records the job's final state and sends the mail asked for.
ScriptExit ==
    /\ BatchFrame
    /\ jobState = "RUNNING" /\ running = "none" /\ Cmd = "exit"
    /\ jobState' = JobStateOfExit(status)
    /\ mail' = mail \cup MailFor(JobStateOfExit(status))
    /\ simProcs' = 0
    /\ UNCHANGED <<ip, running, status, clock, zipProcs, steps, ended>>

\* A minute of wall-clock time passes below the limit.
Tick ==
    /\ BatchFrame
    /\ jobState = "RUNNING"
    /\ clock + 1 < TimeLimit
    /\ clock' = clock + 1
    /\ UNCHANGED <<ip, running, status, jobState, mail, simProcs, zipProcs,
                   steps, ended>>

\* The job reaches --time: the scheduler kills the script and its job steps
\* and records TIMEOUT.  "running" keeps the command that was interrupted.
Timeout ==
    /\ BatchFrame
    /\ jobState = "RUNNING"
    /\ clock + 1 = TimeLimit
    /\ clock' = TimeLimit
    /\ jobState' = "TIMEOUT"
    /\ mail' = mail \cup MailFor("TIMEOUT")
    /\ simProcs' = 0
    /\ zipProcs' = 0
    /\ UNCHANGED <<ip, running, status, steps, ended>>

BatchNext ==
    \/ \E st \in ExitStatuses : ModuleLoad(st)
    \/ SrunStart
    \/ \E st \in ExitStatuses : SrunEnd(st)
    \/ ZipStart
    \/ \E st \in ExitStatuses : ZipEnd(st)
    \/ ScriptExit
    \/ Tick
    \/ Timeout

SpecBatch == BatchInit /\ [][BatchNext]_vars

(***************************************************************************)
(*                         exact rational numbers                          *)
(***************************************************************************)

Abs(n) == IF n < 0 THEN -n ELSE n

RECURSIVE GCD(_, _)
GCD(a, b) == IF b = 0 THEN a ELSE GCD(b, a % b)

\* n/d in lowest terms with a positive denominator (d # 0).
Rat(n, d) ==
    LET g == GCD(Abs(n), Abs(d))
        sg == IF d < 0 THEN -1 ELSE 1
    IN  <<sg * (n \div g), Abs(d) \div g>>

RInt(n) == <<n, 1>>
RAdd(a, b) == Rat(a[1] * b[2] + b[1] * a[2], a[2] * b[2])
RNeg(a) == <<-a[1], a[2]>>
RSub(a, b) == RAdd(a, RNeg(b))
RMul(a, b) == Rat(a[1] * b[1], a[2] * b[2])
RDiv(a, b) == Rat(a[1] * b[2], a[2] * b[1])
RIsZero(a) == a[1] = 0
RPos(a) == a[1] > 0

(***************************************************************************)
(*                     notebook: parameters and grid                       *)
(***************************************************************************)

\* line 88: k11 = 1.0
k11 == RInt(1)

\* lines 111-115: the TDIS cell
nper == 1
perlen == <<RInt(1)>>
nstp == <<1>>
tsmult == <<RInt(1), RInt(1), RInt(1)>>

Min(a, b) == IF a < b THEN a ELSE b

\* Python's zip of three lists: as long as the shortest of them.
Zip3(a, b, c) ==
    [i \in 1..Min(Len(a), Min(Len(b), Len(c))) |-> <<a[i], b[i], c[i]>>]

tdis_ds == Zip3(perlen, nstp, tsmult)

\* lines 134-139: the outer grid, nrow = ncol = 7 cells of 100 m
OuterN == 7
CellSize == 100

\* lines 159-160: idomain[:, 2:5, 2:5] = 0 (rows and columns from 0)
idomain(r, c) == IF r \in 2..4 /\ c \in 2..4 THEN 0 ELSE 1

OuterCells == {rc \in (0..OuterN - 1) \X (0..OuterN - 1) : idomain(rc[1], rc[2]) = 1}

\* line 267: the merged grid numbers the active cells of the first grid first,
\* row by row from the top row, skipping the inactive ones.
NodeNumber(r, c) ==
    Cardinality({rc \in OuterCells :
                    rc[1] < r \/ (rc[1] = r /\ rc[2] < c)})

\* Cell centres of the outer grid (row 0 is the top row, origin at 0, 0).
XCellCenter(r, c) == CellSize * c + CellSize \div 2
YCellCenter(r, c) == CellSize * OuterN - (CellSize * r + CellSize \div 2)

(***************************************************************************)
(*                            notebook: hgrad                              *)
(***************************************************************************)

\* angle1 is held as a direction <<a, b>> # <<0, 0>>: the angle, in degrees,
\* of that vector from the x axis (45 is <<1, 1>>), which makes cos^2, sin^2
\* and sin*cos exact rationals.
Cos2(angle1) ==
    Rat(angle1[1] * angle1[1], angle1[1] * angle1[1] + angle1[2] * angle1[2])
Sin2(angle1) ==
    Rat(angle1[2] * angle1[2], angle1[1] * angle1[1] + angle1[2] * angle1[2])
SinCos(angle1) ==
    Rat(angle1[1] * angle1[2], angle1[1] * angle1[1] + angle1[2] * angle1[2])

\* line 325
kxx(k, k22, angle1) == RAdd(RMul(k, Cos2(angle1)), RMul(k22, Sin2(angle1)))

\* line 326
kyy(k, k22, angle1) == RAdd(RMul(k, Sin2(angle1)), RMul(k22, Cos2(angle1)))

kxySum(k, k22, angle1) == RMul(RAdd(k, k22), SinCos(angle1))

\* lines 327-328: kxy, and kyx = kxy
kxy(k, k22, angle1) == RMul(RSub(k, k22), SinCos(angle1))

\* line 329
det(k, k22, angle1) ==
    RSub(RMul(kxx(k, k22, angle1), kyy(k, k22, angle1)),
         RMul(kxy(k, k22, angle1), kxy(k, k22, angle1)))

\* lines 322-337: the division by det raises ZeroDivisionError when det = 0
hgrad(k, k22, angle1, qx, qy) ==
    LET d == det(k, k22, angle1) IN
    IF RIsZero(d)
    THEN [err |-> "ZeroDivisionError", hgradx |-> None, hgrady |-> None]
    ELSE LET kinvxx == RDiv(kyy(k, k22, angle1), d)
             kinvxy == RDiv(RNeg(kxy(k, k22, angle1)), d)
             kinvyx == RDiv(RNeg(kxy(k, k22, angle1)), d)
             kinvyy == RDiv(kxx(k, k22, angle1), d)
         IN  [err |-> "",
              hgradx |-> RSub(RNeg(RMul(kinvxx, qx)), RMul(kinvxy, qy)),
              hgrady |-> RSub(RNeg(RMul(kinvyx, qx)), RMul(kinvyy, qy))]

(***************************************************************************)
(*                    notebook: add_chds and build_sim                     *)
(***************************************************************************)

LeftListShifted == <<0, 7, 15, 18, 22, 26, 33>>

\* lines 350 and 372: the cells of CHD-LEFT
LeftList == <<0, 7, 14, 18, 22, 26, 33>>

\* lines 360 and 385: the cells of CHD-RIGHT
RightList == <<6, 13, 17, 21, 25, 32, 39>>

\* line 398: the cells of CHD-TOP
TopList == <<1, 2, 3, 4, 5>>

\* line 411: the cells of CHD-BOTTOM
BottomList == <<34, 35, 36, 37, 38>>

\* line 371 (and 541)
hconst(hgradx, hgrady) ==
    RSub(RAdd(RMul(hgradx, RInt(50)), RMul(hgrady, RInt(50))), RInt(1))

\* lines 375, 388, 401, 414
head(hgradx, hgrady, x, y) ==
    RSub(RAdd(RMul(hgradx, RInt(x)), RMul(hgrady, RInt(y))),
         hconst(hgradx, hgrady))

\* lines 374 and 387: y of the row of the irow-th cell (irow from 0)
RowY(irow) == (6 - irow) * 100 + 50

ColXFromZero(jcol) == jcol * 100 + 50

\* lines 399 and 412: x of the column of the jcol-th cell (jcol from 0)
ColX(jcol) == jcol * 100 + 150

\* A flopy.mf6.ModflowGwfchd package: stress period 0 holds spd, a list of
\* [layer, cell, head] records.
ModflowGwfchd(pname, filename, spd) ==
    [pname |-> pname, filename |-> filename, spd |-> spd]

\* lines 347-422: the packages add_chds adds to gwf, in order
add_chds(hgradx, hgrady) ==
    IF hgradx = None
    THEN << ModflowGwfchd("CHD-LEFT", "gwf.left.chd",
                [n \in 1..Len(LeftList) |-> <<0, LeftList[n], RInt(1)>>]),
            ModflowGwfchd("CHD-RIGHT", "gwf.right.chd",
                [n \in 1..Len(RightList) |-> <<0, RightList[n], RInt(0)>>]) >>
    ELSE << ModflowGwfchd("CHD-LEFT", "gwf.left.chd",
                [n \in 1..Len(LeftList) |->
                    <<0, LeftList[n], head(hgradx, hgrady, 50, RowY(n - 1))>>]),
            ModflowGwfchd("CHD-RIGHT", "gwf.right.chd",
                [n \in 1..Len(RightList) |->
                    <<0, RightList[n], head(hgradx, hgrady, 650, RowY(n - 1))>>]),
            ModflowGwfchd("CHD-TOP", "gwf.top.chd",
                [n \in 1..Len(TopList) |->
                    <<0, TopList[n], head(hgradx, hgrady, ColX(n - 1), 650)>>]),
            ModflowGwfchd("CHD-BOTTOM", "gwf.bottom.chd",
                [n \in 1..Len(BottomList) |->
                    <<0, BottomList[n], head(hgradx, hgrady, ColX(n - 1), 50)>>]) >>

\* lines 432-477: the simulation build_sim returns; xt3d is the value of the
\* global xt3doptions at the call.  NPF gets k = k11 and no k22, no angle1.
build_sim(hgradx, hgrady, xt3d) ==
    [tdis |-> [nper |-> nper, perioddata |-> tdis_ds],
     npf  |-> [xt3doptions |-> xt3d, k |-> k11, k22 |-> None, angle1 |-> None],
     chd  |-> add_chds(hgradx, hgrady)]

(***************************************************************************)
(*      SpecFn: hgrad, add_chds and build_sim applied to drawn inputs      *)
(***************************************************************************)

MaxKTenths == 3
MaxDir == 2
MaxQ == 1

\* Conductivities: 0, 0.1, ... and the notebook's k11.
KValues == {Rat(n, 10) : n \in 0..MaxKTenths} \cup {k11}

\* Angles, as directions.
Dirs == {d \in (-MaxDir..MaxDir) \X (-MaxDir..MaxDir) : d # <<0, 0>>}

\* Flux components: multiples of the notebook's 1 / 600.
QValues == {Rat(n, 600) : n \in -MaxQ..MaxQ}

FnFrame == UNCHANGED <<batchVars, nbVars>>

FnInit ==
    /\ BatchOff
    /\ NbOff
    /\ fn_pc = "in"
    /\ fn_in \in [k : KValues, k22 : KValues, angle1 : Dirs,
                  qx : QValues, qy : QValues]
    /\ fn_out = None
    /\ fn_sim = None

\* hgradx, hgrady = hgrad(k, k22, angle1, qx, qy)
FnHgrad ==
    /\ FnFrame
    /\ fn_pc = "in"
    /\ fn_out' = [res |-> hgrad(fn_in.k, fn_in.k22, fn_in.angle1, fn_in.qx, fn_in.qy),
                  det |-> det(fn_in.k, fn_in.k22, fn_in.angle1)]
    /\ fn_pc' = "hgrad"
    /\ UNCHANGED <<fn_in, fn_sim>>

\* sim = build_sim(hgradx=hgradx, hgrady=hgrady)
FnBuildGradient ==
    /\ FnFrame
    /\ fn_pc = "hgrad" /\ fn_out.res.err = ""
    /\ fn_sim' = build_sim(fn_out.res.hgradx, fn_out.res.hgrady, "None")
    /\ fn_pc' = "gradient"
    /\ UNCHANGED <<fn_in, fn_out>>

\* sim = build_sim()
FnBuildBase ==
    /\ FnFrame
    /\ fn_pc = "in"
    /\ fn_sim' = build_sim(None, None, "None")
    /\ fn_pc' = "base"
    /\ UNCHANGED <<fn_in, fn_out>>

FnNext == FnHgrad \/ FnBuildGradient \/ FnBuildBase

SpecFn == FnInit /\ [][FnNext]_vars

(***************************************************************************)
(*        SpecNotebook: the exercise cells B, C and D in a kernel          *)
(*        that has run the notebook from the top through Exercise A        *)
(***************************************************************************)

MaxNbDir == 1

\* Angles tried in cell D (D2: "Play with different anisotropy angle").
NbDirs == {d \in (0..MaxNbDir) \X (0..MaxNbDir) : d # <<0, 0>>}

\* Values of xt3doptions tried in cell D (line 752, and D2: "Set
\* xt3doptions=None and rerun without XT3D").
NbXt3d == {"None", "xt3d"}

SimIds == {1, 2}

CellBNoAssign ==
    <<"npf.write", "write_simulation", "run_simulation", "plot_results", "budget">>

\* lines 658-666
CellB ==
    <<"npf.xt3doptions", "npf.write", "write_simulation", "run_simulation",
      "plot_results", "budget">>

\* lines 692-700
CellC ==
    <<"npf.xt3doptions", "npf.write", "write_simulation", "run_simulation",
      "plot_results", "budget">>

CellDNoNpfWrite ==
    <<"params", "hgrad", "build_sim", "write_simulation", "get_model", "npf.set",
      "run_simulation", "plot_results">>

\* lines 747-767
CellD ==
    <<"params", "hgrad", "build_sim", "write_simulation", "get_model", "npf.set",
      "npf.write", "run_simulation", "plot_results">>

Program(c) == IF c = "B" THEN CellB ELSE IF c = "C" THEN CellC ELSE CellD

\* lines 658 and 692: what the cell assigns to gwf.npf.xt3doptions
CellXt3d(c) == IF c = "B" THEN "" ELSE "xt3d"

\* The simulator uses XT3D when the NPF file has the XT3D option; None and ""
\* write no option.
Xt3dActive(opt) == opt \notin {"None", ""}

Stmt == IF cell \in {"B", "C", "D"} /\ line \in 1..Len(Program(cell))
        THEN Program(cell)[line] ELSE "none"

NbFrame == UNCHANGED <<batchVars, fnVars>>

\* The statement at hand is done: go to the next, or leave the cell.
Advance(call) ==
    /\ log' = Append(log, call)
    /\ IF line = Len(Program(cell))
       THEN cell' = "idle" /\ line' = 0
       ELSE cell' = cell /\ line' = line + 1

\* line 576 and lines 606: sim = build_sim(); gwf = sim.get_model(model_name)
NbInit ==
    /\ BatchOff
    /\ FnOff
    /\ cell = "idle"
    /\ line = 0
    /\ xt3doptions = "None"
    /\ glob = [k22 |-> None, angle1 |-> None, hgradx |-> None, hgrady |-> None]
    /\ objs = [i \in SimIds |-> IF i = 1 THEN <<build_sim(None, None, "None")>> ELSE <<>>]
    /\ sim = 1
    /\ gwf = 1
    /\ disk = [npf |-> <<>>, deck |-> <<>>, out |-> <<>>]
    /\ plotted = <<>>
    /\ budget = <<>>
    /\ log = <<>>
    /\ lastRun = <<>>

\* The user executes one of the exercise cells.
StartCell(c) ==
    /\ NbFrame
    /\ cell = "idle"
    /\ cell' = c
    /\ line' = 1
    /\ log' = <<>>
    /\ UNCHANGED <<xt3doptions, glob, objs, sim, gwf, disk, plotted, budget, lastRun>>

\* lines 658, 692: gwf.npf.xt3doptions = "" / "xt3d"
SetXt3d ==
    /\ NbFrame
    /\ Stmt = "npf.xt3doptions"
    /\ objs' = [objs EXCEPT ![gwf][1].npf.xt3doptions = CellXt3d(cell)]
    /\ Advance("npf.xt3doptions")
    /\ UNCHANGED <<xt3doptions, glob, sim, gwf, disk, plotted, budget, lastRun>>

\* lines 659, 693, 765: gwf.npf.write() writes the NPF file of gwf
NpfWrite ==
    /\ NbFrame
    /\ Stmt = "npf.write"
    /\ disk' = [disk EXCEPT !.npf = <<objs[gwf][1].npf>>]
    /\ Advance("npf.write")
    /\ UNCHANGED <<xt3doptions, glob, objs, sim, gwf, plotted, budget, lastRun>>

\* lines 660, 694, 759: sim.write_simulation() writes every file of sim
WriteSimulation ==
    /\ NbFrame
    /\ Stmt = "write_simulation"
    /\ disk' = [disk EXCEPT !.npf = <<objs[sim][1].npf>>,
                            !.deck = <<[tdis |-> objs[sim][1].tdis,
                                        chd |-> objs[sim][1].chd]>>]
    /\ Advance("write_simulation")
    /\ UNCHANGED <<xt3doptions, glob, objs, sim, gwf, plotted, budget, lastRun>>

\* lines 661, 695, 766: sim.run_simulation() runs mf6 on the files in sim_ws
\* and returns when it has ended
RunSimulation ==
    /\ NbFrame
    /\ Stmt = "run_simulation"
    /\ disk.npf # <<>> /\ disk.deck # <<>>
    /\ LET run == [cell |-> cell,
                   npf |-> disk.npf[1],
                   chd |-> disk.deck[1].chd,
                   xt3d |-> Xt3dActive(disk.npf[1].xt3doptions),
                   mem |-> objs[gwf][1].npf]
       IN  /\ lastRun' = <<run>>
           /\ disk' = [disk EXCEPT !.out = <<[cell |-> cell, npf |-> run.npf,
                                             xt3d |-> run.xt3d]>>]
    /\ Advance("run_simulation")
    /\ UNCHANGED <<xt3doptions, glob, objs, sim, gwf, plotted, budget>>

\* lines 662, 696, 767: plot_results reads the head and budget files
PlotResults ==
    /\ NbFrame
    /\ Stmt = "plot_results"
    /\ plotted' = disk.out
    /\ Advance("plot_results")
    /\ UNCHANGED <<xt3doptions, glob, objs, sim, gwf, disk, budget, lastRun>>

\* lines 664-668, 698-702: Mf6ListBudget reads gwf.lst
ReadBudget ==
    /\ NbFrame
    /\ Stmt = "budget"
    /\ budget' = disk.out
    /\ Advance("budget")
    /\ UNCHANGED <<xt3doptions, glob, objs, sim, gwf, disk, plotted, lastRun>>

\* lines 747-752: k = k11, k22 = 0.1 * k, angle1, qx, qy, xt3doptions
Params(a, x) ==
    /\ NbFrame
    /\ Stmt = "params"
    /\ glob' = [glob EXCEPT !.k22 = RMul(Rat(1, 10), k11), !.angle1 = a]
    /\ xt3doptions' = x
    /\ Advance("params")
    /\ UNCHANGED <<objs, sim, gwf, disk, plotted, budget, lastRun>>

\* lines 754-756: hgradx, hgrady = hgrad(k, k22, angle1, qx, qy), qx = 1 / 600,
\* qy = 0; a ZeroDivisionError ends the cell
Hgrad ==
    /\ NbFrame
    /\ Stmt = "hgrad"
    /\ LET r == hgrad(k11, glob.k22, glob.angle1, Rat(1, 600), RInt(0)) IN
       IF r.err = ""
       THEN /\ glob' = [glob EXCEPT !.hgradx = r.hgradx, !.hgrady = r.hgrady]
            /\ Advance("hgrad")
       ELSE /\ cell' = "idle" /\ line' = 0 /\ log' = Append(log, r.err)
            /\ UNCHANGED glob
    /\ UNCHANGED <<xt3doptions, objs, sim, gwf, disk, plotted, budget, lastRun>>

\* line 758: sim = build_sim(hgradx=hgradx, hgrady=hgrady); gwf still names the
\* model of the simulation before
BuildSim ==
    /\ NbFrame
    /\ Stmt = "build_sim"
    /\ \E new \in SimIds :
          /\ new # sim /\ new # gwf
          /\ objs' = [i \in SimIds |->
                        IF i = new
                        THEN <<build_sim(glob.hgradx, glob.hgrady, xt3doptions)>>
                        ELSE IF i = gwf THEN objs[i] ELSE <<>>]
          /\ sim' = new
    /\ Advance("build_sim")
    /\ UNCHANGED <<xt3doptions, glob, gwf, disk, plotted, budget, lastRun>>

\* line 760: gwf = sim.get_model(model_name); a simulation neither sim nor gwf
\* names any more is gone
GetModel ==
    /\ NbFrame
    /\ Stmt = "get_model"
    /\ gwf' = sim
    /\ objs' = [i \in SimIds |-> IF i = sim THEN objs[i] ELSE <<>>]
    /\ Advance("get_model")
    /\ UNCHANGED <<xt3doptions, glob, sim, disk, plotted, budget, lastRun>>

\* lines 761-764: gwf.npf.xt3doptions, k, k22, angle1 = the globals
SetNpf ==
    /\ NbFrame
    /\ Stmt = "npf.set"
    /\ objs' = [objs EXCEPT ![gwf][1].npf =
                    [xt3doptions |-> xt3doptions, k |-> k11,
                     k22 |-> glob.k22, angle1 |-> glob.angle1]]
    /\ Advance("npf.set")
    /\ UNCHANGED <<xt3doptions, glob, sim, gwf, disk, plotted, budget, lastRun>>

NbNext ==
    \/ \E c \in {"B", "C", "D"} : StartCell(c)
    \/ SetXt3d
    \/ NpfWrite
    \/ WriteSimulation
    \/ RunSimulation
    \/ PlotResults
    \/ ReadBudget
    \/ \E a \in NbDirs, x \in NbXt3d : Params(a, x)
    \/ Hgrad
    \/ BuildSim
    \/ GetModel
    \/ SetNpf

SpecNotebook == NbInit /\ [][NbNext]_vars

(***************************************************************************)
(*                        properties: slurm.batch                          *)
(***************************************************************************)

\* C1: the commands run in the order module load, simulator, archive, each at
\* most once (the commands started are always a prefix of the script), and
\* the archive starts only after the simulator step has ended.
C1_FixedOrder ==
    /\ Len(steps) <= Len(Script)
    /\ \A i \in 1..Len(steps) : steps[i] = Script[i]
    /\ (\E i \in 1..Len(steps) : steps[i] = "zip")
           => (\E j \in 1..Len(ended) : ended[j][1] = "srun")

C1_Witness ==
    /\ jobState = "COMPLETED"
    /\ steps = <<"module", "srun", "zip">>
    /\ Len(ended) = 3

C3_OneTask ==
    /\ simProcs <= 1
    /\ ~(zipProcs > 0 /\ simProcs > 0)

C3_Witness == simProcs = 1 /\ running = "srun" /\ jobState = "RUNNING"

\* C10: a script that reaches its end has run the archive whatever the
\* simulator (or module load) returned, and its exit status, hence the job's
\* final state, is that of the archive command alone.
C10_NoAbort ==
    jobState \in {"COMPLETED", "FAILED"} =>
        /\ steps = Script
        /\ Len(ended) = 3
        /\ ended[3][1] = "zip"
        /\ status = ended[3][2]
        /\ jobState = JobStateOfExit(ended[3][2])

C10_Witness ==
    /\ jobState = "COMPLETED"
    /\ Len(ended) = 3
    /\ ended[2] = <<"srun", 1>>
    /\ ended[3] = <<"zip", 0>>
    /\ mail = {}

(***************************************************************************)
(*                   properties: hgrad, add_chds, build_sim                *)
(***************************************************************************)

ChdCells(pkg) == {pkg.spd[n][2] : n \in 1..Len(pkg.spd)}

ChdNames(chd) == [n \in 1..Len(chd) |-> chd[n].pname]

\* Cells of the merged grid in the leftmost and rightmost column and on the
\* perimeter of the outer 7 x 7 grid.
LeftColumn == {NodeNumber(r, 0) : r \in 0..OuterN - 1}
RightColumn == {NodeNumber(r, OuterN - 1) : r \in 0..OuterN - 1}
Perimeter ==
    {NodeNumber(rc[1], rc[2]) :
        rc \in {q \in OuterCells : q[1] \in {0, OuterN - 1} \/ q[2] \in {0, OuterN - 1}}}

\* Row and column of each perimeter cell.
RowColOf ==
    [i \in Perimeter |-> CHOOSE rc \in OuterCells : NodeNumber(rc[1], rc[2]) = i]

\* hgradx * x + hgrady * y - hconst, hconst = hgradx * 50 + hgrady * 50 - 1
ExpectedHead(hx, hy, x, y) ==
    RSub(RAdd(RMul(hx, RInt(x)), RMul(hy, RInt(y))),
         RSub(RAdd(RMul(hx, RInt(50)), RMul(hy, RInt(50))), RInt(1)))

\* C6 (as claimed): the time discretization has 4 periods, 1 day then three
\* of 10 days with 120 steps each.
C6_FourPeriods ==
    fn_pc \in {"base", "gradient"} =>
        /\ fn_sim.tdis.nper = 4
        /\ Len(fn_sim.tdis.perioddata) = 4
        /\ fn_sim.tdis.perioddata[1][1] = RInt(1)
        /\ \A i \in 2..4 :
               /\ fn_sim.tdis.perioddata[i][1] = RInt(10)
               /\ fn_sim.tdis.perioddata[i][2] = 120

\* C7: without a gradient add_chds creates exactly CHD-LEFT, head 1 on the
\* seven cells of the leftmost column, and CHD-RIGHT, head 0 on the seven
\* cells of the rightmost column.
C7_BaseChds ==
    fn_pc = "base" =>
        LET chd == fn_sim.chd IN
        /\ ChdNames(chd) = <<"CHD-LEFT", "CHD-RIGHT">>
        /\ Len(chd[1].spd) = 7 /\ Len(chd[2].spd) = 7
        /\ ChdCells(chd[1]) = LeftColumn
        /\ ChdCells(chd[1]) = {0, 7, 14, 18, 22, 26, 33}
        /\ ChdCells(chd[2]) = RightColumn
        /\ ChdCells(chd[2]) = {6, 13, 17, 21, 25, 32, 39}
        /\ \A n \in 1..7 : chd[1].spd[n][3] = RInt(1) /\ chd[2].spd[n][3] = RInt(0)

C7_Witness ==
    /\ fn_pc = "base"
    /\ Len(fn_sim.chd) = 2
    /\ fn_sim.chd[1].spd[3] = <<0, 14, <<1, 1>>>>

SumLen(chd) == Len(chd[1].spd) + Len(chd[2].spd) + Len(chd[3].spd) + Len(chd[4].spd)

\* C8: with a gradient the four packages hold one record for each of the 24
\* perimeter cells and no other, no cell twice, each head being
\* hgradx * x + hgrady * y - hconst at the cell's centre.
C8_PerimeterChds ==
    fn_pc = "gradient" =>
        LET chd == fn_sim.chd
            hx == fn_out.res.hgradx
            hy == fn_out.res.hgrady
        IN
        /\ ChdNames(chd) = <<"CHD-LEFT", "CHD-RIGHT", "CHD-TOP", "CHD-BOTTOM">>
        /\ Cardinality(Perimeter) = 24
        /\ SumLen(chd) = 24
        /\ UNION {ChdCells(chd[p]) : p \in 1..4} = Perimeter
        /\ \A p \in 1..4 : \A n \in 1..Len(chd[p].spd) :
               LET rec == chd[p].spd[n]
                   rc == RowColOf[rec[2]]
               IN  rec[3] = ExpectedHead(hx, hy, XCellCenter(rc[1], rc[2]),
                                         YCellCenter(rc[1], rc[2]))

C8_Witness ==
    /\ fn_pc = "gradient"
    /\ fn_in.k = k11 /\ fn_in.k22 = <<1, 10>> /\ fn_in.angle1 = <<1, 1>>
    /\ fn_in.qx = <<1, 600>> /\ fn_in.qy = <<0, 1>>
    /\ fn_out.res.hgradx = <<-11, 1200>>
    /\ fn_out.res.hgrady = <<3, 400>>
    /\ Len(fn_sim.chd) = 4

Before(a, b) ==
    \A i \in 1..Len(log) : log[i] = b => \E j \in 1..(i - 1) : log[j] = a

\* C4: in each exercise cell the simulator is invoked only after
\* write_simulation, plot_results and the budget reader only after
\* run_simulation has returned, and the NPF file the simulator is given holds
\* the settings of gwf.npf in memory at that moment (in cell D those set after
\* write_simulation: the values cell D assigned to the globals).
C4_WriteRunRead ==
    /\ Before("write_simulation", "run_simulation")
    /\ Before("run_simulation", "plot_results")
    /\ Before("run_simulation", "budget")
    /\ lastRun # <<>> => lastRun[1].npf = lastRun[1].mem
    /\ (lastRun # <<>> /\ lastRun[1].cell = "D"
           /\ \E i \in 1..Len(log) : log[i] = "run_simulation") =>
           /\ lastRun[1].npf.k22 = glob.k22
           /\ lastRun[1].npf.angle1 = glob.angle1
           /\ lastRun[1].npf.xt3doptions = xt3doptions

C4_Witness ==
    /\ cell = "idle"
    /\ log = CellD
    /\ lastRun # <<>>
    /\ lastRun[1].cell = "D"
    /\ lastRun[1].npf = [xt3doptions |-> "xt3d", k |-> <<1, 1>>,
                         k22 |-> <<1, 10>>, angle1 |-> <<1, 1>>]
    /\ plotted = disk.out

\* C5: whatever the global xt3doptions and whatever cells ran before, the
\* run of cell B is without XT3D and the run of cell C is with XT3D, and the
\* results the cell plots and prints are those of that run.
C5_BWithoutCWith ==
    /\ lastRun # <<>> =>
           /\ lastRun[1].cell = "B" => ~lastRun[1].xt3d
           /\ lastRun[1].cell = "C" => lastRun[1].xt3d
    /\ (cell = "idle" /\ lastRun # <<>> /\ lastRun[1].cell \in {"B", "C"}) =>
           /\ plotted = <<[cell |-> lastRun[1].cell, npf |-> lastRun[1].npf,
                           xt3d |-> lastRun[1].cell = "C"]>>
           /\ budget = plotted

\* Cell B run after cell D (four CHD packages) left the global at "xt3d" and
\* after cell C set XT3D on the same model.
C5_Witness ==
    /\ cell = "idle"
    /\ log = CellB
    /\ xt3doptions = "xt3d"
    /\ Len(objs[sim][1].chd) = 4
    /\ lastRun # <<>>
    /\ lastRun[1].cell = "B"
    /\ ~lastRun[1].xt3d
    /\ budget # <<>> /\ budget[1].cell = "B"

====
